---- MODULE Spec2Model ----
(***************************************************************************)
(* gen-iter: adapters that turn a coroutine into an iterator.              *)
(*   GenIter<T>        (src/src/gen_iter.rs)        - Iterator over yields *)
(*   GenIterReturn<G>  (src/src/gen_iter_return.rs) - keeps the return     *)
(* The coroutine itself is supplied by the caller (core::ops::Coroutine);  *)
(* it is modelled as a coroutine literal whose body yields prog.ys, then   *)
(* returns prog.ret, or panics at its prog.panicAt-th resume; a body with   *)
(* prog.loops set yields prog.ys over and over and never returns.          *)
(***************************************************************************)
EXTENDS Integers, Sequences, FiniteSets, TLC

\* ---------------------------------------------------------------- bounds
MaxLen == 2        \* longest sequence of yields of a coroutine body
MaxCalls == 4      \* next() calls made on one adapter

Values == {1, 2}   \* values a body may yield
Returns == {2, 3}  \* values a body may return

Kinds == {"GenIter", "GenIterReturn"}
Placements == {"movable", "pinned"}

\* ---------------------------------------------------------------- state
VARIABLES
    prog,             \* the coroutine body: [ys, ret, panicAt, loops]
    slots,            \* pinned storage: slot -> coroutine state (pin!(..))
    gen_iter,         \* placement -> GenIter.0
    gen_iter_return,  \* placement -> GenIterReturn.0 (or moved out)
    out,              \* kind -> placement -> results of the next() calls so far
    resumes,          \* kind -> placement -> number of resume(()) calls issued
    last              \* the last call made and what it returned

vars == <<prog, slots, gen_iter, gen_iter_return, out, resumes, last>>

\* ---------------------------------------------------------------- values
\* Option<Y> as returned by next(); a panic unwinding out of the call is the
\* third outcome.
Some(y) == [tag |-> "Some", val |-> y]
None == [tag |-> "None", val |-> 0]
Panic(why) == [tag |-> why, val |-> 0]

\* CoroutineState<Y, R>
Yielded(y) == [tag |-> "Yielded", val |-> y]
Complete(r) == [tag |-> "Complete", val |-> r]

\* The state of a coroutine literal: how many yields it has passed and
\* whether it is still resumable.
NewCoroutine == [st |-> "Unresumed", pos |-> 0]
NoCoroutine == [st |-> "Absent", pos |-> 0]

\* G as stored in an adapter: the coroutine itself (movable), or a
\* Pin<&mut C> into a pinned slot (static / static move macro arms).
Inline(co) == [pinned |-> FALSE, slot |-> 0, co |-> co]
PinRef(s) == [pinned |-> TRUE, slot |-> s, co |-> NoCoroutine]
NoG == [pinned |-> FALSE, slot |-> 0, co |-> NoCoroutine]

\* Result<G::Return, G>, the field of GenIterReturn
Ok(r) == [tag |-> "Ok", r |-> r, g |-> NoG]
Err(g) == [tag |-> "Err", r |-> 0, g |-> g]
Moved == [tag |-> "Moved", r |-> 0, g |-> NoG]

GenIterSlot == 1
GenIterReturnSlot == 2

\* ---------------------------------------------------------------- coroutine
\* Coroutine::resume(()) of a coroutine literal with body prog.
Resume(co) ==
    IF co.st = "Returned" THEN
        [out |-> Panic("PanicResumedAfterCompletion"), co |-> co]
    ELSE IF co.st = "Panicked" THEN
        [out |-> Panic("PanicResumedAfterPanic"), co |-> co]
    ELSE IF prog.panicAt = co.pos + 1 THEN
        [out |-> Panic("PanicBody"), co |-> [st |-> "Panicked", pos |-> co.pos]]
    ELSE IF co.pos < Len(prog.ys) THEN
        [out |-> Yielded(prog.ys[co.pos + 1]),
         co |-> [st |-> "Suspended", pos |-> co.pos + 1]]
    ELSE IF prog.loops THEN
        [out |-> Yielded(prog.ys[1]), co |-> [st |-> "Suspended", pos |-> 1]]
    ELSE
        [out |-> Complete(prog.ret), co |-> [st |-> "Returned", pos |-> co.pos]]

\* Variant: the pinned coroutine is resumed as a copy, the slot keeps its
\* old state.
ResumeG_NoWriteBack(g, sl) ==
    IF g.pinned THEN
        LET r == Resume(sl[g.slot])
        IN [out |-> r.out, g |-> g, slots |-> sl]
    ELSE
        LET r == Resume(g.co)
        IN [out |-> r.out, g |-> [g EXCEPT !.co = r.co], slots |-> sl]

\* Pin::new(g).resume(()): on a movable coroutine the field itself is
\* resumed in place; on a Pin<&mut C> the call goes through the reference
\* and changes the pinned slot.
ResumeG(g, sl) ==
    IF g.pinned THEN
        LET r == Resume(sl[g.slot])
        IN [out |-> r.out, g |-> g, slots |-> [sl EXCEPT ![g.slot] = r.co]]
    ELSE
        LET r == Resume(g.co)
        IN [out |-> r.out, g |-> [g EXCEPT !.co = r.co], slots |-> sl]

\* The coroutine a stored G denotes.
CoOf(g, sl) == IF g.pinned THEN sl[g.slot] ELSE g.co

\* ---------------------------------------------------------------- GenIter
\* Variant: next() remembers completion and returns None without resuming.
GenIter_next_Fused(self, sl) ==
    IF CoOf(self, sl).st = "Returned" THEN
        [ret |-> None, self |-> self, slots |-> sl, resumes |-> 0]
    ELSE
        LET s == ResumeG(self, sl)
        IN [ret |-> CASE s.out.tag = "Yielded" -> Some(s.out.val)
                      [] s.out.tag = "Complete" -> None
                      [] OTHER -> s.out,
            self |-> s.g, slots |-> s.slots, resumes |-> 1]

\* <GenIter<T> as Iterator>::next
GenIter_next(self, sl) ==
    LET s == ResumeG(self, sl)
    IN [ret |-> CASE s.out.tag = "Yielded" -> Some(s.out.val)
                  [] s.out.tag = "Complete" -> None
                  [] OTHER -> s.out,
        self |-> s.g, slots |-> s.slots, resumes |-> 1]

\* GenIter(c), gen_iter!(..), gen_iter!(move ..), From<G>
GenIter_from(co) == Inline(co)

\* gen_iter!(static ..), gen_iter!(static move ..)
GenIter_static(s) == PinRef(s)

\* ---------------------------------------------------------------- GenIterReturn
\* Variant: the constructor primes the coroutine with a first resume.
GenIterReturn_new_Eager(co) ==
    LET r == Resume(co)
    IN IF r.out.tag = "Complete" THEN Ok(r.out.val) ELSE Err(Inline(r.co))

\* GenIterReturn::new
GenIterReturn_new(co) == Err(Inline(co))

\* <GenIterReturn<G> as From<G>>::from
GenIterReturn_from(co) == GenIterReturn_new(co)

\* gen_iter_return!(static ..), gen_iter_return!(static move ..)
GenIterReturn_static(s) == Err(PinRef(s))

\* Variant: `is_err()` instead of `is_ok()`.
is_done_Inverted(self) == self.tag = "Err"

\* GenIterReturn::is_done
is_done(self) == self.tag = "Ok"

\* Variant: the Err arm hands back an adapter whose coroutine has moved on
\* by one suspension point.
return_or_self_Advances(self) ==
    IF self.tag = "Ok"
    THEN [tag |-> "Ok", r |-> self.r, self |-> Moved]
    ELSE [tag |-> "Err", r |-> 0,
          self |-> [self EXCEPT !.g.co.pos = IF self.g.pinned THEN @ ELSE @ + 1]]

\* GenIterReturn::return_or_self
return_or_self(self) ==
    IF self.tag = "Ok"
    THEN [tag |-> "Ok", r |-> self.r, self |-> Moved]
    ELSE [tag |-> "Err", r |-> 0, self |-> self]

\* Variant: `Err(mut g)` instead of `Err(ref mut g)`: a copy of the coroutine
\* is resumed and the field keeps its old state.
GenIterReturn_next_ByCopy(self, sl) ==
    IF self.tag = "Ok" THEN
        [ret |-> None, self |-> self, slots |-> sl, resumes |-> 0]
    ELSE
        LET s == ResumeG(self.g, sl)
        IN CASE s.out.tag = "Yielded" ->
                  [ret |-> Some(s.out.val), self |-> self,
                   slots |-> s.slots, resumes |-> 1]
             [] s.out.tag = "Complete" ->
                  [ret |-> None, self |-> Ok(s.out.val),
                   slots |-> s.slots, resumes |-> 1]
             [] OTHER ->
                  [ret |-> s.out, self |-> self,
                   slots |-> s.slots, resumes |-> 1]

\* Variant: the Complete arm stores a default value instead of r.
GenIterReturn_next_LosesReturn(self, sl) ==
    IF self.tag = "Ok" THEN
        [ret |-> None, self |-> self, slots |-> sl, resumes |-> 0]
    ELSE
        LET s == ResumeG(self.g, sl)
        IN CASE s.out.tag = "Yielded" ->
                  [ret |-> Some(s.out.val), self |-> Err(s.g),
                   slots |-> s.slots, resumes |-> 1]
             [] s.out.tag = "Complete" ->
                  [ret |-> None, self |-> Ok(0),
                   slots |-> s.slots, resumes |-> 1]
             [] OTHER ->
                  [ret |-> s.out, self |-> Err(s.g),
                   slots |-> s.slots, resumes |-> 1]

\* Variant: a call on a Finished adapter overwrites the stored result.
GenIterReturn_next_ClobbersResult(self, sl) ==
    IF self.tag = "Ok" THEN
        [ret |-> None, self |-> Ok(0), slots |-> sl, resumes |-> 0]
    ELSE
        LET s == ResumeG(self.g, sl)
        IN CASE s.out.tag = "Yielded" ->
                  [ret |-> Some(s.out.val), self |-> Err(s.g),
                   slots |-> s.slots, resumes |-> 1]
             [] s.out.tag = "Complete" ->
                  [ret |-> None, self |-> Ok(s.out.val),
                   slots |-> s.slots, resumes |-> 1]
             [] OTHER ->
                  [ret |-> s.out, self |-> Err(s.g),
                   slots |-> s.slots, resumes |-> 1]

\* Variant: a panic of the body is caught, reported as exhaustion and the
\* adapter marked finished.
GenIterReturn_next_CatchesPanic(self, sl) ==
    IF self.tag = "Ok" THEN
        [ret |-> None, self |-> self, slots |-> sl, resumes |-> 0]
    ELSE
        LET s == ResumeG(self.g, sl)
        IN CASE s.out.tag = "Yielded" ->
                  [ret |-> Some(s.out.val), self |-> Err(s.g),
                   slots |-> s.slots, resumes |-> 1]
             [] s.out.tag = "Complete" ->
                  [ret |-> None, self |-> Ok(s.out.val),
                   slots |-> s.slots, resumes |-> 1]
             [] OTHER ->
                  [ret |-> None, self |-> Ok(0),
                   slots |-> s.slots, resumes |-> 1]

\* Variant: after a yield the coroutine is resumed once more to look ahead,
\* and what that resume produced is dropped.
GenIterReturn_next_LookAhead(self, sl) ==
    IF self.tag = "Ok" THEN
        [ret |-> None, self |-> self, slots |-> sl, resumes |-> 0]
    ELSE
        LET s == ResumeG(self.g, sl)
        IN CASE s.out.tag = "Yielded" ->
                  LET t == ResumeG(s.g, s.slots)
                  IN [ret |-> Some(s.out.val), self |-> Err(t.g),
                      slots |-> t.slots, resumes |-> 2]
             [] s.out.tag = "Complete" ->
                  [ret |-> None, self |-> Ok(s.out.val),
                   slots |-> s.slots, resumes |-> 1]
             [] OTHER ->
                  [ret |-> s.out, self |-> Err(s.g),
                   slots |-> s.slots, resumes |-> 1]

\* Variant: the Complete arm forgets `self.0 = Ok(r)`.
GenIterReturn_next_Unfused(self, sl) ==
    IF self.tag = "Ok" THEN
        [ret |-> None, self |-> self, slots |-> sl, resumes |-> 0]
    ELSE
        LET s == ResumeG(self.g, sl)
        IN CASE s.out.tag = "Yielded" ->
                  [ret |-> Some(s.out.val), self |-> Err(s.g),
                   slots |-> s.slots, resumes |-> 1]
             [] s.out.tag = "Complete" ->
                  [ret |-> None, self |-> Err(s.g),
                   slots |-> s.slots, resumes |-> 1]
             [] OTHER ->
                  [ret |-> s.out, self |-> Err(s.g),
                   slots |-> s.slots, resumes |-> 1]

\* <&mut GenIterReturn<G> as Iterator>::next
GenIterReturn_next(self, sl) ==
    IF self.tag = "Ok" THEN
        [ret |-> None, self |-> self, slots |-> sl, resumes |-> 0]
    ELSE
        LET s == ResumeG(self.g, sl)
        IN CASE s.out.tag = "Yielded" ->
                  [ret |-> Some(s.out.val), self |-> Err(s.g),
                   slots |-> s.slots, resumes |-> 1]
             [] s.out.tag = "Complete" ->
                  [ret |-> None, self |-> Ok(s.out.val),
                   slots |-> s.slots, resumes |-> 1]
             [] OTHER ->
                  [ret |-> s.out, self |-> Err(s.g),
                   slots |-> s.slots, resumes |-> 1]

\* for y in &mut g { .. }: next() until it returns something other than
\* Some; `fuel` bounds the number of items taken.
RECURSIVE Drain(_, _, _)
Drain(self, sl, fuel) ==
    LET c == GenIterReturn_next(self, sl)
    IN IF c.ret.tag = "Some" /\ fuel > 0
       THEN LET rest == Drain(c.self, c.slots, fuel - 1)
            IN [items |-> <<c.ret.val>> \o rest.items,
                end |-> rest.end, self |-> rest.self]
       ELSE [items |-> <<>>, end |-> c.ret, self |-> c.self]

\* let it = &mut g; it.next(); .. it.next(): k calls through one handle.
RECURSIVE Drive(_, _, _)
Drive(self, sl, k) ==
    IF k = 0 THEN <<>>
    ELSE LET c == GenIterReturn_next(self, sl)
         IN <<c.ret>> \o Drive(c.self, c.slots, k - 1)

\* ---------------------------------------------------------------- programs
SeqsUpTo(S, n) == UNION {[1..k -> S] : k \in 0..n}

Programs ==
    {[ys |-> ys, ret |-> r, panicAt |-> k, loops |-> FALSE] :
        ys \in SeqsUpTo(Values, MaxLen), r \in Returns, k \in 0..(MaxLen + 1)}

\* loop { .. yield .. }: bodies that yield for ever
LoopPrograms ==
    {[ys |-> ys, ret |-> r, panicAt |-> 0, loops |-> TRUE] :
        ys \in SeqsUpTo(Values, MaxLen) \ {<<>>}, r \in Returns}

\* panicAt = 0: the body never panics; panicAt = k: its k-th resume panics.
WellFormed(p) == p.panicAt <= Len(p.ys) + 1

Call(op, kind, p, res) == [op |-> op, kind |-> kind, p |-> p, res |-> res]

\* ---------------------------------------------------------------- Init
Constructed ==
    /\ slots = [s \in {GenIterSlot, GenIterReturnSlot} |-> NewCoroutine]
    /\ gen_iter = [p \in Placements |->
                     IF p = "movable" THEN GenIter_from(NewCoroutine)
                     ELSE GenIter_static(GenIterSlot)]
    /\ \E ctor \in {"new", "from"} :
         /\ gen_iter_return = [p \in Placements |->
                     IF p = "movable"
                     THEN (IF ctor = "new" THEN GenIterReturn_new(NewCoroutine)
                           ELSE GenIterReturn_from(NewCoroutine))
                     ELSE GenIterReturn_static(GenIterReturnSlot)]
         /\ last = Call(ctor, "GenIterReturn", "movable", None)
    /\ out = [k \in Kinds |-> [p \in Placements |-> <<>>]]
    /\ resumes = [k \in Kinds |-> [p \in Placements |-> 0]]

Init ==
    /\ prog \in {p \in Programs : WellFormed(p)}
    /\ Constructed

\* ---------------------------------------------------------------- actions
\* g.next() on a GenIter
GenIterNext(p) ==
    /\ Len(out["GenIter"][p]) < MaxCalls
    /\ LET c == GenIter_next(gen_iter[p], slots)
       IN /\ gen_iter' = [gen_iter EXCEPT ![p] = c.self]
          /\ slots' = c.slots
          /\ out' = [out EXCEPT !["GenIter"][p] = Append(@, c.ret)]
          /\ resumes' = [resumes EXCEPT !["GenIter"][p] = @ + c.resumes]
          /\ last' = Call("next", "GenIter", p, c.ret)
    /\ UNCHANGED <<prog, gen_iter_return>>

\* Variant: the handle iterates a copy of the adapter (GenIterReturn is
\* Copy), so what the call does to self.0 is lost when the handle goes.
GenIterReturnNext_OnCopy(p) ==
    /\ gen_iter_return[p].tag # "Moved"
    /\ Len(out["GenIterReturn"][p]) < MaxCalls
    /\ LET c == GenIterReturn_next(gen_iter_return[p], slots)
       IN /\ slots' = c.slots
          /\ out' = [out EXCEPT !["GenIterReturn"][p] = Append(@, c.ret)]
          /\ resumes' = [resumes EXCEPT !["GenIterReturn"][p] = @ + c.resumes]
          /\ last' = Call("next", "GenIterReturn", p, c.ret)
    /\ UNCHANGED <<prog, gen_iter, gen_iter_return>>

\* (&mut g).next() on a GenIterReturn: each call borrows g anew
GenIterReturnNext(p) ==
    /\ gen_iter_return[p].tag # "Moved"
    /\ Len(out["GenIterReturn"][p]) < MaxCalls
    /\ LET c == GenIterReturn_next(gen_iter_return[p], slots)
       IN /\ gen_iter_return' = [gen_iter_return EXCEPT ![p] = c.self]
          /\ slots' = c.slots
          /\ out' = [out EXCEPT !["GenIterReturn"][p] = Append(@, c.ret)]
          /\ resumes' = [resumes EXCEPT !["GenIterReturn"][p] = @ + c.resumes]
          /\ last' = Call("next", "GenIterReturn", p, c.ret)
    /\ UNCHANGED <<prog, gen_iter>>

\* g.is_done()
IsDone(p) ==
    /\ gen_iter_return[p].tag # "Moved"
    /\ last' = Call("is_done", "GenIterReturn", p,
                    [tag |-> IF is_done(gen_iter_return[p]) THEN "true" ELSE "false",
                     val |-> 0])
    /\ UNCHANGED <<prog, slots, gen_iter, gen_iter_return, out, resumes>>

\* g = match g.return_or_self() { Ok(r) => .., Err(g) => g }
ReturnOrSelf(p) ==
    /\ gen_iter_return[p].tag # "Moved"
    /\ LET res == return_or_self(gen_iter_return[p])
       IN /\ gen_iter_return' = [gen_iter_return EXCEPT ![p] = res.self]
          /\ last' = Call("return_or_self", "GenIterReturn", p,
                          [tag |-> res.tag, val |-> res.r])
    /\ UNCHANGED <<prog, slots, gen_iter, out, resumes>>

Next ==
    \E p \in Placements :
        \/ GenIterNext(p)
        \/ GenIterReturnNext(p)
        \/ IsDone(p)
        \/ ReturnOrSelf(p)

Spec == Init /\ [][Next]_vars

\* ---------------------------------------------------------------- drain loop
\* for y in &mut g { .. } followed by g.is_done() and g.return_or_self(),
\* over bodies that return, panic or loop for ever.
InitDrain ==
    /\ prog \in {p \in Programs : WellFormed(p)} \cup LoopPrograms
    /\ Constructed

\* The for loop has left its body: next() returned None, or a panic unwound.
Exited(p) ==
    LET o == out["GenIterReturn"][p]
    IN o # <<>> /\ o[Len(o)].tag # "Some"

\* One turn of the for loop.
DrainStep(p) == ~Exited(p) /\ GenIterReturnNext(p)

\* assert_eq!(g.is_done(), true) after the loop
AfterDrainIsDone(p) == Exited(p) /\ IsDone(p)

\* g.return_or_self() after the loop
AfterDrainReturnOrSelf(p) == Exited(p) /\ ReturnOrSelf(p)

NextDrain ==
    \E p \in Placements :
        \/ DrainStep(p)
        \/ AfterDrainIsDone(p)
        \/ AfterDrainReturnOrSelf(p)

\* The loop is synchronous code: while it has not exited it takes its next
\* turn.
SpecDrain ==
    /\ InitDrain
    /\ [][NextDrain]_vars
    /\ \A p \in Placements : WF_vars(DrainStep(p))

\* ---------------------------------------------------------------- claims
NumYields == Len(prog.ys)
Completes == prog.panicAt = 0 /\ ~prog.loops
GI == "GenIter"
GIR == "GenIterReturn"

\* The i-th next() on a fresh adapter over a body that yields ys and returns.
Expected(i) == IF i <= NumYields THEN Some(prog.ys[i]) ELSE None

\* A next() call on adapter (k, p) is the step that lengthens its record.
IsNextStep(k, p) == Len(out'[k][p]) = Len(out[k][p]) + 1

\* C1: for a body that yields y1..yn and then completes, the first n next()
\* calls on a GenIter, and on a &mut GenIterReturn, return Some(y1)..Some(yn)
\* in that order, and call n+1 returns None.
C1_OrderPreserved ==
    Completes =>
        \A k \in Kinds, p \in Placements :
            \A i \in 1..Len(out[k][p]) :
                i <= NumYields + 1 => out[k][p][i] = Expected(i)

C1_Witness ==
    /\ Completes
    /\ prog.ys = <<2, 1>>
    /\ \E p \in Placements :
          /\ Len(out[GI][p]) >= 3
          /\ Len(out[GIR][p]) >= 3
          /\ SubSeq(out[GI][p], 1, 3) = <<Some(2), Some(1), None>>
          /\ SubSeq(out[GIR][p], 1, 3) = <<Some(2), Some(1), None>>

\* C2: once is_done() is true, every further next() on the GenIterReturn
\* returns None and issues no resume; no next() on a GenIterReturn ever
\* resumes a coroutine that has already completed.
C2_FusedAfterDone ==
    /\ [](\A p \in Placements : \A i \in 1..Len(out[GIR][p]) :
              out[GIR][p][i].tag # "PanicResumedAfterCompletion")
    /\ [][\A p \in Placements :
              (is_done(gen_iter_return[p]) /\ IsNextStep(GIR, p)) =>
                  /\ last'.res = None
                  /\ resumes' = resumes
                  /\ slots' = slots
                  /\ gen_iter_return' = gen_iter_return]_vars

C2_Witness ==
    \E p \in Placements :
        /\ is_done(gen_iter_return[p])
        /\ NumYields >= 1
        /\ Len(out[GIR][p]) >= NumYields + 3
        /\ resumes[GIR][p] = NumYields + 1
        /\ last = Call("next", GIR, p, None)

\* C3: is_done() is false at every point before the next() call in which
\* the coroutine completes and true at every point after it; once true it
\* is never false again for that instance.
C3_IsDoneMonotonic ==
    /\ [](\A p \in Placements :
              gen_iter_return[p].tag # "Moved" =>
                  /\ is_done(gen_iter_return[p]) <=>
                         (Completes /\ Len(out[GIR][p]) >= NumYields + 1)
                  /\ (last.op = "is_done" /\ last.p = p) =>
                         (last.res.tag = "true" <=>
                             (Completes /\ Len(out[GIR][p]) >= NumYields + 1)))
    /\ [][\A p \in Placements :
              (is_done(gen_iter_return[p]) /\ gen_iter_return'[p].tag # "Moved")
                  => is_done(gen_iter_return'[p])]_vars

C3_Witness ==
    \E p \in Placements :
        /\ last = Call("is_done", GIR, p, [tag |-> "true", val |-> 0])
        /\ NumYields >= 1
        /\ Len(out[GIR][p]) > NumYields + 1


\* C4: return_or_self() on a GenIterReturn that is not done returns Err with
\* the adapter unchanged: still Running, no resume issued, the coroutine at
\* the same suspension point, so that draining the returned adapter gives
\* exactly the yields not yet produced, then the same final result.
C4_ErrReturnsUnchanged ==
    [][\A p \in Placements :
          (last'.op = "return_or_self" /\ last'.p = p
              /\ gen_iter_return[p].tag = "Err") =>
              /\ last'.res.tag = "Err"
              /\ gen_iter_return'[p] = gen_iter_return[p]
              /\ slots' = slots
              /\ resumes' = resumes
              /\ Completes =>
                    LET d == Drain(gen_iter_return'[p], slots', MaxLen + 1)
                    IN /\ d.items = SubSeq(prog.ys, Len(out[GIR][p]) + 1, NumYields)
                       /\ d.end = None
                       /\ return_or_self(d.self).tag = "Ok"
                       /\ return_or_self(d.self).r = prog.ret]_vars

C4_Witness ==
    \E p \in Placements :
        /\ last = Call("return_or_self", GIR, p, [tag |-> "Err", val |-> 0])
        /\ Completes
        /\ NumYields = 2
        /\ Len(out[GIR][p]) = 1
        /\ gen_iter_return[p].tag = "Err"

\* C5: return_or_self() on a GenIterReturn that is done returns Ok(r), r
\* being the value the coroutine completed with.
C5_OkReturnsResult ==
    [][\A p \in Placements :
          (last'.op = "return_or_self" /\ last'.p = p
              /\ is_done(gen_iter_return[p])) =>
              /\ Completes
              /\ last'.res = [tag |-> "Ok", val |-> prog.ret]]_vars

C5_Witness ==
    \E p \in Placements :
        /\ last = Call("return_or_self", GIR, p, [tag |-> "Ok", val |-> prog.ret])
        /\ NumYields = 2
        /\ gen_iter_return[p] = Moved

\* C6: GenIter keeps no record of completion: a next() made after an
\* earlier next() on the same GenIter returned None issues another resume,
\* on the already completed coroutine.
C6_GenIterResumesAfterCompletion ==
    [][\A p \in Placements :
          (IsNextStep(GI, p)
              /\ \E i \in 1..Len(out[GI][p]) : out[GI][p][i] = None) =>
              /\ resumes'[GI][p] = resumes[GI][p] + 1
              /\ CoOf(gen_iter[p], slots).st = "Returned"
              /\ last'.res = Panic("PanicResumedAfterCompletion")]_vars

C6_Witness ==
    \E p \in Placements :
        LET o == out[GI][p]
        IN /\ Len(o) >= 2
           /\ o[Len(o) - 1] = None
           /\ o[Len(o)] = Panic("PanicResumedAfterCompletion")
           /\ resumes[GI][p] = Len(o)

\* C7: the state of a GenIterReturn changes only by Running -> Finished, and
\* only in a next() call in which the coroutine completes; nothing takes a
\* Finished adapter back to Running.
C7_OnlyRunningToFinished ==
    [][\A p \in Placements :
          /\ (gen_iter_return'[p].tag # gen_iter_return[p].tag
                 /\ gen_iter_return'[p].tag # "Moved") =>
                 /\ gen_iter_return[p].tag = "Err"
                 /\ gen_iter_return'[p].tag = "Ok"
                 /\ last' = Call("next", GIR, p, None)
                 /\ IsNextStep(GIR, p)
                 /\ Completes
                 /\ Len(out'[GIR][p]) = NumYields + 1
          /\ (last'.op = "is_done" /\ last'.p = p) =>
                 gen_iter_return'[p] = gen_iter_return[p]
          /\ (IsNextStep(GIR, p) /\ last'.res.tag = "Some") =>
                 gen_iter_return'[p].tag = "Err"]_vars

C7_Witness ==
    \E p \in Placements :
        /\ last = Call("next", GIR, p, None)
        /\ gen_iter_return[p].tag = "Ok"
        /\ NumYields >= 1
        /\ Len(out[GIR][p]) = NumYields + 1

\* C8: once a GenIterReturn is Finished(r), later next() and is_done() calls
\* leave r unchanged, and return_or_self() still returns Ok of the r the
\* coroutine completed with.
C8_ResultPersists ==
    [][\A p \in Placements :
          gen_iter_return[p].tag = "Ok" =>
              /\ gen_iter_return[p].r = prog.ret
              /\ \/ gen_iter_return'[p] = gen_iter_return[p]
                 \/ /\ gen_iter_return'[p] = Moved
                    /\ last' = Call("return_or_self", GIR, p,
                                     [tag |-> "Ok", val |-> prog.ret])]_vars

C8_Witness ==
    \E p \in Placements :
        /\ last = Call("return_or_self", GIR, p, [tag |-> "Ok", val |-> prog.ret])
        /\ NumYields >= 1
        /\ Len(out[GIR][p]) >= NumYields + 3

\* C9: when the body of the coroutine fails during a resume, that failure is
\* the outcome of the enclosing next() on a GenIter or GenIterReturn: it is
\* not turned into Some or None, and the call issues no second resume.
C9_BodyFailurePropagates ==
    [][\A k \in Kinds, p \in Placements :
          (IsNextStep(k, p) /\ prog.panicAt = Len(out[k][p]) + 1) =>
              /\ last' = Call("next", k, p, Panic("PanicBody"))
              /\ out'[k][p] = Append(out[k][p], Panic("PanicBody"))
              /\ resumes'[k][p] = resumes[k][p] + 1]_vars

C9_Witness ==
    \E p \in Placements :
        /\ prog.panicAt = 2
        /\ out[GI][p] = <<Some(prog.ys[1]), Panic("PanicBody")>>
        /\ out[GIR][p] = <<Some(prog.ys[1]), Panic("PanicBody")>>

\* C10: an adapter built through the pinned (static / static move) path and
\* one built through the movable path over the same body return the same
\* results call by call, and for GenIterReturn the same is_done() values and
\* the same final result.
C10_PlacementEquivalence ==
    /\ \A k \in Kinds :
          LET a == out[k]["movable"]
              b == out[k]["pinned"]
          IN \A i \in 1..Len(a) : i <= Len(b) => a[i] = b[i]
    /\ LET m == gen_iter_return["movable"]
           q == gen_iter_return["pinned"]
       IN (Len(out[GIR]["movable"]) = Len(out[GIR]["pinned"])
              /\ m.tag # "Moved" /\ q.tag # "Moved") =>
              /\ is_done(m) = is_done(q)
              /\ return_or_self(m).tag = return_or_self(q).tag
              /\ return_or_self(m).r = return_or_self(q).r

C10_Witness ==
    /\ prog.ys = <<1, 2>>
    /\ Completes
    /\ \A k \in Kinds :
          /\ out[k]["movable"] = out[k]["pinned"]
          /\ Len(out[k]["pinned"]) = 3
    /\ is_done(gen_iter_return["pinned"])
    /\ is_done(gen_iter_return["movable"])

\* C11: every way of constructing a GenIterReturn (new, From, the macro
\* arms) gives a Running adapter without resuming the coroutine: until the
\* first next(), is_done() is false and return_or_self() returns Err, also
\* for a body that completes on its first resume.
C11_ConstructedRunning ==
    \A p \in Placements :
        Len(out[GIR][p]) = 0 =>
            /\ gen_iter_return[p].tag = "Err"
            /\ ~is_done(gen_iter_return[p])
            /\ return_or_self(gen_iter_return[p]).tag = "Err"
            /\ return_or_self(gen_iter_return[p]).self = gen_iter_return[p]
            /\ CoOf(gen_iter_return[p].g, slots) = NewCoroutine
            /\ resumes[GIR][p] = 0

C11_Witness ==
    /\ last = Call("from", GIR, "movable", None)
    /\ NumYields = 0
    /\ Completes
    /\ \A p \in Placements :
          /\ Len(out[GIR][p]) = 0
          /\ ~is_done(gen_iter_return[p])

Min(a, b) == IF a <= b THEN a ELSE b

\* C12: what a next() on a GenIterReturn returns agrees with the state it
\* leaves: Some(y) only with the adapter Running after the call, None only
\* with it Finished; the call in which the coroutine completes returns None
\* and makes is_done() true in the same step.
C12_ResultMatchesState ==
    \A p \in Placements :
        (last.op = "next" /\ last.kind = GIR /\ last.p = p) =>
            /\ last.res.tag = "Some" =>
                  (gen_iter_return[p].tag = "Err" /\ ~is_done(gen_iter_return[p]))
            /\ last.res = None =>
                  (gen_iter_return[p].tag = "Ok" /\ is_done(gen_iter_return[p]))
            /\ (Completes /\ Len(out[GIR][p]) = NumYields + 1) =>
                  (last.res = None /\ is_done(gen_iter_return[p]))
            /\ (Completes /\ Len(out[GIR][p]) <= NumYields) =>
                  last.res.tag = "Some"

C12_Witness ==
    \E p \in Placements :
        /\ last = Call("next", GIR, p, None)
        /\ NumYields = 2
        /\ Len(out[GIR][p]) = 3
        /\ out[GIR][p][2].tag = "Some"
        /\ is_done(gen_iter_return[p])

\* C13: a next() issues exactly one resume when it resumes at all: every
\* call on a GenIter issues one; a call on a GenIterReturn issues one if the
\* adapter is Running and none if it is Finished, so that k calls over a
\* body with n yields issue min(k, n+1) resumes.
C13_OneResumePerCall ==
    \A p \in Placements :
        LET k == Len(out[GIR][p])
        IN /\ resumes[GI][p] = Len(out[GI][p])
           /\ Completes => resumes[GIR][p] = Min(k, NumYields + 1)
           /\ ~Completes => resumes[GIR][p] = k
           /\ (Completes /\ p = "pinned") =>
                 /\ slots[GenIterReturnSlot].pos = Min(k, NumYields)
                 /\ slots[GenIterSlot].pos = Min(Len(out[GI][p]), NumYields)

C13_Witness ==
    \E p \in Placements :
        /\ Completes
        /\ NumYields = 1
        /\ Len(out[GIR][p]) = 4
        /\ resumes[GIR][p] = 2
        /\ Len(out[GI][p]) = 4
        /\ resumes[GI][p] = 4

\* C16: when the body fails during the resume of a next() on a
\* GenIterReturn, the adapter stays Running (is_done() false,
\* return_or_self() Err), and a later next() resumes that same failed
\* coroutine again: the adapter neither becomes Finished nor answers None.
C16_RunningAfterFailure ==
    \A p \in Placements :
        LET o == out[GIR][p]
        IN (prog.panicAt >= 1 /\ Len(o) >= prog.panicAt) =>
              /\ o[prog.panicAt] = Panic("PanicBody")
              /\ gen_iter_return[p].tag = "Err"
              /\ ~is_done(gen_iter_return[p])
              /\ return_or_self(gen_iter_return[p]).tag = "Err"
              /\ CoOf(gen_iter_return[p].g, slots).st = "Panicked"
              /\ resumes[GIR][p] = Len(o)
              /\ \A i \in (prog.panicAt + 1)..Len(o) :
                    o[i] = Panic("PanicResumedAfterPanic")

C16_Witness ==
    \E p \in Placements :
        /\ prog.panicAt = 2
        /\ out[GIR][p] = <<Some(prog.ys[1]), Panic("PanicBody"),
                            Panic("PanicResumedAfterPanic")>>
        /\ resumes[GIR][p] = 3
        /\ last = Call("return_or_self", GIR, p, [tag |-> "Err", val |-> 0])

\* The adapter and the pinned storage as construction leaves them.
FreshAdapter(p) ==
    IF p = "movable" THEN GenIterReturn_new(NewCoroutine)
    ELSE GenIterReturn_static(GenIterReturnSlot)
FreshSlots == [s \in {GenIterSlot, GenIterReturnSlot} |-> NewCoroutine]

\* The values of the Some results of a record of next() calls.
RECURSIVE Items(_)
Items(o) ==
    IF o = <<>> THEN <<>>
    ELSE (IF Head(o).tag = "Some" THEN <<Head(o).val>> ELSE <<>>) \o Items(Tail(o))

\* C15: the progress of a GenIterReturn lives in the adapter, not in the
\* borrowed handle: calls made through separately created &mut g handles
\* return what the same number of calls through one handle return, and a
\* drain started with a new handle continues where the last one stopped.
C15_ProgressInAdapter ==
    \A p \in Placements :
        LET o == out[GIR][p]
        IN /\ o = Drive(FreshAdapter(p), FreshSlots, Len(o))
           /\ (Completes /\ gen_iter_return[p].tag # "Moved") =>
                 LET d == Drain(gen_iter_return[p], slots, MaxLen + 1)
                 IN /\ Items(o) \o d.items = prog.ys
                    /\ d.end = None
                    /\ return_or_self(d.self).r = prog.ret

C15_Witness ==
    \E p \in Placements :
        /\ Completes
        /\ prog.ys = <<1, 2>>
        /\ out[GIR][p] = <<Some(1)>>
        /\ last = Call("is_done", GIR, p, [tag |-> "false", val |-> 0])
        /\ Drain(gen_iter_return[p], slots, MaxLen + 1).items = <<2>>

\* C14: a drain loop over &mut GenIterReturn ends for a body that completes
\* after n yields, after exactly n+1 next() calls and n items, with
\* is_done() true on exit; over a body that never completes next() never
\* returns None and is_done() never becomes true.
C14_DrainTerminates ==
    /\ \A p \in Placements : Completes => <>Exited(p)
    /\ [](\A p \in Placements :
             (Completes /\ Exited(p)) =>
                 /\ Len(out[GIR][p]) = NumYields + 1
                 /\ Items(out[GIR][p]) = prog.ys
                 /\ out[GIR][p][NumYields + 1] = None
                 /\ gen_iter_return[p].tag # "Err"
                 /\ gen_iter_return[p].tag = "Ok" => is_done(gen_iter_return[p]))
    /\ [](\A p \in Placements :
             prog.loops =>
                 /\ ~Exited(p)
                 /\ \A i \in 1..Len(out[GIR][p]) : out[GIR][p][i].tag = "Some"
                 /\ gen_iter_return[p].tag = "Err"
                 /\ ~is_done(gen_iter_return[p]))

C14_Witness ==
    \E p \in Placements :
        /\ Completes
        /\ NumYields = 2
        /\ Exited(p)
        /\ Len(out[GIR][p]) = 3
        /\ last = Call("is_done", GIR, p, [tag |-> "true", val |-> 0])

====
